---- MODULE Spec2Model ----
(***************************************************************************)
(* A model of atlas/generators.py: the Generator facade (construction,     *)
(* set_strategy, __call__, generate), make_strategy, and the strategies    *)
(* and registry it drives.  atlas.strategies and atlas.utils.genutils are  *)
(* not part of the source file; the depth-first strategy, the random       *)
(* strategy and the registry are modelled from the design document.        *)
(***************************************************************************)
EXTENDS Integers, Sequences, FiniteSets, TLC

\* ---------------------------------------------------------------- bounds
MaxNodes == 5     \* nodes (choice sites plus returns) of a decision tree
MaxStack == 4     \* trace-stack depth explored
NGen     == 2     \* Generator objects constructed
NIter    == 2     \* generate() iterator objects alive at a time
MaxStrat == 2     \* Strategy instances created
MaxSites == 2     \* call expressions in a function body

VARIABLES
  funcs,    \* funcs[f]: generator function f, its decision tree (immutable)
  gens,     \* gens[g]: the fields of Generator object g
  strats,   \* strats[s]: the state of Strategy instance s
  nstrat,   \* number of Strategy instances created so far
  groups,   \* registry: group name -> ordered sequence of generators
  byName,   \* registry: name -> generator
  iters,    \* iters[i]: the generate() iterator object i
  last      \* the operation that produced this state, and its result

vars == <<funcs, gens, strats, nstrat, groups, byName, iters, last>>

Gens       == 1..NGen
Iters      == 1..NIter
StratIds   == 1..MaxStrat
GroupNames == {"grp"}
Names      == {"nm"}
NoStr      == "-"          \* Python None, for a name or a group
NoRef      == 0            \* Python None, for an object reference

\* ------------------------------------------------- generator functions
\* A generator function is its decision tree: a node either returns or is a
\* choice site offering Len(ch) candidates, child k being what the function
\* does after candidate k-1 was selected.  The output of a run is the
\* sequence of selected indices, so distinct leaves give distinct outputs.
Ret == [kind |-> "ret", ch |-> <<>>]

Sel(c) == [kind |-> "sel", ch |-> c]

Mk(f) == IF f = <<>> THEN Ret ELSE Sel(f)

RECURSIVE Forest(_)
\* the sequences of trees with m nodes in all
Forest(m) ==
  IF m = 0 THEN {<<>>}
  ELSE UNION {{<<Mk(f1)>> \o f2 : f1 \in Forest(j - 1), f2 \in Forest(m - j)} : j \in 1..m}

\* every deterministic finite-domain function with at most n nodes
Trees(n) == {Mk(f) : f \in UNION {Forest(k - 1) : k \in 1..n}}

\* the docstring's g(length): `length` sequential Select(["0", "1"])
RECURSIVE BinTree(_)
BinTree(length) == IF length = 0 THEN Ret ELSE Sel(<<BinTree(length - 1), BinTree(length - 1)>>)

RECURSIVE Leaves(_)
\* the root-to-leaf index sequences of a tree, in preorder
Leaves(t) ==
  IF t.kind = "ret" THEN <<(<<>>)>>
  ELSE LET RECURSIVE From(_)
           From(k) == IF k > Len(t.ch) THEN <<>>
                      ELSE [j \in 1..Len(Leaves(t.ch[k])) |-> <<k - 1>> \o Leaves(t.ch[k])[j]]
                           \o From(k + 1)
       IN From(1)

RECURSIVE FirstPath(_)
\* the run in which every choice site selects candidate 0
FirstPath(t) == IF t.kind = "ret" \/ Len(t.ch) = 0 THEN <<>> ELSE <<0>> \o FirstPath(t.ch[1])

\* A function whose body can raise (on some hidden condition) may do so at
\* any point of a run: after that many choice sites were resolved.  NoFail:
\* the run does not raise.
NoFail == 0 - 1

FailPoints(fn) == IF fn.raises THEN {NoFail} \cup (0..(MaxNodes - 1)) ELSE {NoFail}

\* The call expressions of a function body, as compile_func walks them.  A
\* callee is a plain name (ast.Name) or not (ast.Attribute); n = 0 is a name
\* of the source, n > 0 the n-th binding name a strategy handed out.  oid is
\* the `oid` keyword of the call: absent, a string literal, or another
\* expression.
Callee(plain, id, n) == [plain |-> plain, id |-> id, n |-> n]

Site(plain, id, oid) == [callee |-> Callee(plain, id, 0), oid |-> oid]

\* Select(["0", "1"]) as the docstring writes it
SelectSite == Site(TRUE, "Select", "none")

\* the call sites of a function known by its decision tree: the docstring's
\* g has one, executed once per loop turn
SitesOf(t) == IF t.kind = "sel" THEN <<SelectSite>> ELSE <<>>

\* tree: the decision tree of the function as it stands; alt: its decision
\* tree once the hidden state its domains depend on has changed (alt = tree
\* for a function that keeps the determinism invariant)
Func(t, r) == [tree |-> t, raises |-> r, body |-> SitesOf(t), alt |-> t]

\* the call expressions a body is made of
Sites == {Site(TRUE, "Select", oid) : oid \in {"none", "a", "expr"}}
           \cup {Site(plain, id, oid) : plain \in BOOLEAN, id \in {"Select", "len"},
                                        oid \in {"none", "expr"}}

RECURSIVE Bodies(_)
\* the bodies of at most m call expressions
Bodies(m) == IF m = 0 THEN {<<>>} ELSE Bodies(m - 1) \cup {Append(b, x) : b \in Bodies(m - 1), x \in Sites}

\* a function given by its call expressions, executed in sequence: each
\* Select(...) offers two candidates, whatever was selected before
FuncOf(b) ==
  [tree |-> BinTree(Cardinality({k \in 1..Len(b) : b[k].callee = Callee(TRUE, "Select", 0)})),
   raises |-> FALSE, body |-> b, alt |-> BinTree(Cardinality({k \in 1..Len(b) : b[k].callee = Callee(TRUE, "Select", 0)}))]

\* functions that break the contract of a generator function: an empty
\* domain at the first site, an empty domain after the first choice, and a
\* first domain whose size depends on hidden state
IllFormed ==
  {[tree |-> Sel(<<>>), raises |-> FALSE, body |-> <<SelectSite>>, alt |-> Sel(<<>>)],
   [tree |-> Sel(<<Sel(<<>>), Ret>>), raises |-> FALSE, body |-> <<SelectSite, SelectSite>>,
    alt |-> Sel(<<Sel(<<>>), Ret>>)],
   [tree |-> Sel(<<Ret, Ret>>), raises |-> FALSE, body |-> <<SelectSite>>,
    alt |-> Sel(<<Ret, Ret, Ret>>)]}

\* ------------------------------------------------------------ strategies
NoStrat == [kind |-> "none", stack |-> <<>>, cursor |-> 0, finished |-> FALSE]

\* DfsStrategy()
NewDfs == [kind |-> "dfs", stack |-> <<>>, cursor |-> 0, finished |-> FALSE]

\* RandStrategy()
NewRand == [kind |-> "randomized", stack |-> <<>>, cursor |-> 0, finished |-> FALSE]

\* Strategy.init(): start(), allocate the trace stack
StratInit(st) == [st EXCEPT !.stack = <<>>, !.finished = FALSE]

\* Strategy.finish(): stop(), clear the trace stack
StratFinish(st) == [st EXCEPT !.stack = <<>>]

\* Strategy.init_run(): run_start(), reset the replay cursor
StratInitRun(st) == [st EXCEPT !.cursor = 0]

\* Strategy.is_finished()
IsFinished(st) == st.finished

RECURSIVE PopExhausted(_)
PopExhausted(s) ==
  IF Len(s) > 0 /\ s[Len(s)].exhausted THEN PopExhausted(SubSeq(s, 1, Len(s) - 1)) ELSE s

\* DfsStrategy.finish_run(): backtrack
DfsFinishRun(st) ==
  LET s == PopExhausted(st.stack) IN
    IF Len(s) = 0 THEN [st EXCEPT !.stack = <<>>, !.finished = TRUE]
    ELSE [st EXCEPT !.stack = [s EXCEPT ![Len(s)] =
                                 [size |-> @.size, idx |-> @.idx + 1,
                                  exhausted |-> (@.idx + 1 = @.size - 1)]]]

\* Strategy.finish_run(): run_end()
StratFinishRun(st) ==
  IF st.kind = "dfs" THEN DfsFinishRun(st) ELSE [st EXCEPT !.finished = TRUE]

\* mutant: a replayed site is not compared with the recorded size
DfsResolveUnchecked(st, n) ==
  IF n = 0 THEN [st |-> st, idx |-> 0, err |-> "EmptyDomainError"]
  ELSE IF st.cursor < Len(st.stack)
  THEN [st |-> [st EXCEPT !.cursor = @ + 1], idx |-> st.stack[st.cursor + 1].idx, err |-> "ok"]
  ELSE [st |-> [st EXCEPT !.stack = Append(@, [size |-> n, idx |-> 0, exhausted |-> (n = 1)]),
                          !.cursor = @ + 1],
        idx |-> 0, err |-> "ok"]

\* the depth-first resolver at a choice site offering n candidates
DfsResolve(st, n) ==
  IF n = 0 THEN [st |-> st, idx |-> 0, err |-> "EmptyDomainError"]
  ELSE IF st.cursor < Len(st.stack)
  THEN LET fr == st.stack[st.cursor + 1] IN
         IF fr.size # n
         THEN [st |-> st, idx |-> 0, err |-> "NonDeterministicDomainError"]
         ELSE [st |-> [st EXCEPT !.cursor = @ + 1], idx |-> fr.idx, err |-> "ok"]
  ELSE [st |-> [st EXCEPT !.stack = Append(@, [size |-> n, idx |-> 0, exhausted |-> (n = 1)]),
                          !.cursor = @ + 1],
        idx |-> 0, err |-> "ok"]

RECURSIVE RunDfs(_, _, _, _)
\* one execution of the callable compiled against a depth-first strategy
RunDfs(node, st, path, failAt) ==
  IF Len(path) = failAt THEN [st |-> st, out |-> path, err |-> "Exception"]
  ELSE IF node.kind = "ret" THEN [st |-> st, out |-> path, err |-> "ok"]
  ELSE LET r == DfsResolve(st, Len(node.ch)) IN
         IF r.err # "ok" THEN [st |-> r.st, out |-> path, err |-> r.err]
         ELSE RunDfs(node.ch[r.idx + 1], r.st, Append(path, r.idx), failAt)

\* one execution of the callable compiled against a random strategy: any
\* leaf, the strategy keeping no frame
RunRand(fn, st) ==
  {[st |-> st, out |-> Leaves(fn.tree)[k], err |-> "ok"] : k \in 1..Len(Leaves(fn.tree))}
    \cup (IF fn.raises THEN {[st |-> st, out |-> <<>>, err |-> "Exception"]} ELSE {})

\* the possible results of invoking the bound callable
RunOutcomes(fn, st) ==
  IF st.kind = "dfs" THEN {RunDfs(fn.tree, st, <<>>, fa) : fa \in FailPoints(fn)}
  ELSE RunRand(fn, st)

\* ------------------------------------------------------------- registry
\* get_group_by_name(group): KeyError for a group nobody registered in
GroupKnown(grps, group) == grps[group] # <<>>

\* register_group(gen, group)
RegisterGroup(grps, g, group) == [grps EXCEPT ![group] = Append(@, g)]

\* register_generator(gen, name)
RegisterGenerator(names, g, name) == [names EXCEPT ![name] = g]

\* ------------------------------------------------------------- generators
\* a Generator object: func, strategy, _compiled_func and group (its name is
\* what the registry holds)
\* ncomp: the compilations done for it since its strategy was last set
NoGen == [exists |-> FALSE, func |-> 0, strategy |-> NoRef, compiled |-> NoRef,
          group |-> NoStr, ncomp |-> 0]

\* a generate() iterator object.  strat: the strategy its episode was started
\* on; outs: the outputs it yielded; log: the lifecycle calls it issued;
\* stopped: it called finish(); pre: the trace-stack depth when its latest
\* run started; clean: nothing else used its strategy or changed its
\* generator while it was suspended; err: what its failed run raised; stray:
\* it issued a lifecycle call to, or ran a callable of, another strategy
NoIter == [pc |-> "none", gen |-> 0, strat |-> NoRef, outs |-> <<>>, log |-> <<>>,
           clean |-> TRUE, stopped |-> FALSE, pre |-> 0, err |-> "ok", stray |-> FALSE]

\* the latest facade operation and what it gave its caller (flag: as_group);
\* what an iterator operation gave is in iters
Op(op, g, err, out, flag) == [op |-> op, g |-> g, err |-> err, out |-> out, flag |-> flag]

NoOp == Op("none", 0, "ok", <<>>, FALSE)

IterOp == Op("iter", 0, "ok", <<>>, FALSE)

\* a lifecycle call issued by generate(), and the strategy it went to
Ev(call, on) == [call |-> call, on |-> on]

\* what a caller may pass as `strategy`: a name, or an instance made before
StratOpts == {[tag |-> "name", name |-> nm, id |-> NoRef] : nm \in {"dfs", "randomized", "bogus"}}
               \cup {[tag |-> "inst", name |-> "", id |-> k] : k \in 1..nstrat}

\* mutant: an unknown name falls back to the default strategy
make_strategyLenient(ss, n, opt) ==
  IF opt.tag = "inst" THEN [ok |-> TRUE, id |-> opt.id, ss |-> ss, n |-> n]
  ELSE IF opt.name = "randomized"
  THEN [ok |-> TRUE, id |-> n + 1, ss |-> (n + 1 :> NewRand) @@ ss, n |-> n + 1]
  ELSE [ok |-> TRUE, id |-> n + 1, ss |-> (n + 1 :> NewDfs) @@ ss, n |-> n + 1]

\* lines 26-36
make_strategy(ss, n, opt) ==
  IF opt.tag = "inst" THEN [ok |-> TRUE, id |-> opt.id, ss |-> ss, n |-> n]
  ELSE IF opt.name = "randomized"
  THEN [ok |-> TRUE, id |-> n + 1, ss |-> (n + 1 :> NewRand) @@ ss, n |-> n + 1]
  ELSE IF opt.name = "dfs"
  THEN [ok |-> TRUE, id |-> n + 1, ss |-> (n + 1 :> NewDfs) @@ ss, n |-> n + 1]
  ELSE [ok |-> FALSE, id |-> NoRef, ss |-> ss, n |-> n]

\* Strategy.get_known_ops(): the operator names the strategy recognizes
KnownOps(st) == {"Select"}

\* mutant: the `oid` keyword is taken whatever expression it is
get_op_idUnchecked(site) == [err |-> "ok", id |-> site.oid]

\* lines 15-23: the `oid` keyword of a call, which must be a string literal
get_op_id(site) ==
  IF site.oid = "none" THEN [err |-> "ok", id |-> "none"]
  ELSE IF site.oid = "expr" THEN [err |-> "CompileError", id |-> "none"]
  ELSE [err |-> "ok", id |-> site.oid]

\* mutant: any callee spelled like an operator is rebound, plain name or not
IsKnownCallAnyCallee(site, known) == site.callee.id \in known

\* line 73: a call whose callee is a plain name among the known operators
IsKnownCall(site, known) == site.callee.plain /\ site.callee.id \in known

\* Strategy.process_op(op_kind, op_id), the n-th operator the strategy is
\* asked for: a binding name and the resolver to bind to it
process_op(kind, oid, n) ==
  [name |-> Callee(TRUE, kind, n), op |-> [kind |-> kind, oid |-> oid, n |-> n]]

\* line 80: ops[n.func.id] = op
Bind(ops, name, op) == {e \in ops : e.name # name} \cup {[name |-> name, op |-> op]}

RECURSIVE Walk(_, _, _)
\* lines 72-80, from the k-th call expression on; w: the body as rewritten so
\* far, the bindings collected, the process_op calls made, the error raised
Walk(w, known, k) ==
  IF k > Len(w.body) \/ w.err # "ok" THEN w
  ELSE IF ~IsKnownCall(w.body[k], known) THEN Walk(w, known, k + 1)
  ELSE LET i == get_op_id(w.body[k]) IN
         IF i.err # "ok" THEN [w EXCEPT !.err = i.err]
         ELSE LET q == process_op(w.body[k].callee.id, i.id, Len(w.asked) + 1) IN
                Walk([w EXCEPT !.body[k].callee = q.name,
                               !.ops = Bind(@, q.name, q.op),
                               !.asked = Append(@, [site |-> k, name |-> q.name, op |-> q.op])],
                     known, k + 1)

\* compile_func(func, strategy): the rewritten body, its bindings, and the
\* callable, whose resolvers are closures of that strategy instance
compile_func(fn, s) ==
  LET w == Walk([body |-> fn.body, ops |-> {}, asked |-> <<>>, err |-> "ok"],
                KnownOps(strats[s]), 1)
  IN [err |-> w.err, callable |-> IF w.err = "ok" THEN s ELSE NoRef,
      body |-> w.body, ops |-> w.ops, asked |-> w.asked]

\* mutant: the callable is compiled at every use
EnsureCompiledAlways(gn) ==
  LET r == compile_func(funcs[gn.func], gn.strategy) IN
    IF r.err = "ok" THEN [gn EXCEPT !.compiled = r.callable, !.ncomp = @ + 1] ELSE gn

\* lines 156-157 and 174-175: the memoized callable; a compilation that
\* raises assigns nothing
EnsureCompiled(gn) ==
  IF gn.compiled = NoRef
  THEN LET r == compile_func(funcs[gn.func], gn.strategy) IN
         IF r.err = "ok" THEN [gn EXCEPT !.compiled = r.callable, !.ncomp = @ + 1] ELSE gn
  ELSE gn

Forget(it) == IF it.clean THEN it ELSE [it EXCEPT !.outs = <<>>, !.log = <<>>]

\* bookkeeping of `clean`: an operation used the strategies S, or changed the
\* generators G; outputs and lifecycle calls are kept only while clean
Disturb(its, actor, S, G) ==
  [j \in Iters |->
     IF j # actor /\ its[j].pc = "suspended" /\ (its[j].strat \in S \/ its[j].gen \in G)
     THEN Forget([its[j] EXCEPT !.clean = FALSE])
     ELSE Forget(its[j])]

FreeGen == {g \in Gens : ~gens[g].exists /\ \A h \in 1..(g - 1) : gens[h].exists}

FreeIter == {i \in Iters : iters[i].pc = "none" /\ \A h \in 1..(i - 1) : iters[h].pc # "none"}

StackOk(ss) == \A k \in StratIds : Len(ss[k].stack) <= MaxStack

\* mutant: a new member keeps the strategy it was constructed with
SharesNever(group) == FALSE

\* lines 115-119: the group exists, so its first member's strategy is taken
Shares(group) == group # NoStr /\ GroupKnown(groups, group)

\* Generator.__init__(func, strategy, name, group)
Construct(f, opt, name, group) ==
  \E g \in FreeGen :
    LET m == make_strategy(strats, nstrat, opt) IN
      IF ~m.ok
      THEN /\ last' = Op("construct", 0, "Exception", <<>>, FALSE)
           /\ UNCHANGED <<funcs, gens, strats, nstrat, groups, byName, iters>>
      ELSE /\ m.n <= MaxStrat
           /\ LET s == IF Shares(group) THEN gens[groups[group][1]].strategy ELSE m.id
              IN gens' = [gens EXCEPT ![g] =
                            [exists |-> TRUE, func |-> f, strategy |-> s, compiled |-> NoRef,
                             group |-> group, ncomp |-> 0]]
           \* the instance made at line 107 is unreferenced once line 119 ran
           /\ strats' = IF Shares(group) THEN strats ELSE m.ss
           /\ nstrat' = IF Shares(group) THEN nstrat ELSE m.n
           /\ byName' = IF name = NoStr THEN byName ELSE RegisterGenerator(byName, g, name)
           /\ groups' = IF group = NoStr THEN groups ELSE RegisterGroup(groups, g, group)
           /\ iters' = Disturb(iters, 0, {}, {})
           /\ last' = Op("construct", g, "ok", <<>>, FALSE)
           /\ UNCHANGED funcs

\* mutant: the memoized callable survives the replacement
SetOneKeepsCallable(gs, g, s) == [gs EXCEPT ![g].strategy = s, ![g].ncomp = 0]

\* lines 139-140: the generator's own strategy and memoized callable
SetOne(gs, g, s) == [gs EXCEPT ![g].strategy = s, ![g].compiled = NoRef, ![g].ncomp = 0]

\* mutant: the group is not told
PropagateNothing(gs, members, self) == gs

RECURSIVE Propagate(_, _, _)
\* lines 143-144: g.set_strategy(self.strategy, as_group=False) for each member
Propagate(gs, members, self) ==
  IF members = <<>> THEN gs
  ELSE Propagate(SetOne(gs, Head(members), gs[self].strategy), Tail(members), self)

\* line 142: the generators set_strategy on g reaches through its group
GroupTargets(g, as_group) ==
  IF as_group /\ gens[g].group # NoStr THEN groups[gens[g].group] ELSE <<>>

Range(seq) == {seq[k] : k \in 1..Len(seq)}

\* Generator.set_strategy(strategy, as_group)
SetStrategy(g, opt, as_group) ==
  /\ gens[g].exists
  /\ LET m == make_strategy(strats, nstrat, opt) IN
       IF ~m.ok
       THEN /\ last' = Op("set_strategy", g, "Exception", <<>>, as_group)
            /\ UNCHANGED <<funcs, gens, strats, nstrat, groups, byName, iters>>
       ELSE /\ m.n <= MaxStrat
            /\ gens' = Propagate(SetOne(gens, g, m.id), GroupTargets(g, as_group), g)
            /\ strats' = m.ss
            /\ nstrat' = m.n
            /\ iters' = Disturb(iters, 0, {}, {g} \cup Range(GroupTargets(g, as_group)))
            /\ last' = Op("set_strategy", g, "ok", <<>>, as_group)
            /\ UNCHANGED <<funcs, groups, byName>>

\* mutant: call() brackets an episode of one run around the invocation
InvokeBracketed(fn, st) ==
  {[st |-> StratFinish(StratFinishRun(r.st)), out |-> r.out, err |-> r.err] :
     r \in RunOutcomes(fn, StratInitRun(StratInit(st)))}

\* line 159: the bound callable is invoked, and nothing else
Invoke(fn, st) == RunOutcomes(fn, st)

\* Generator.__call__(*args)
Call(g) ==
  /\ gens[g].exists
  /\ \E gn \in {EnsureCompiled(gens[g])} :
     LET c == gn.compiled
     IN IF c = NoRef
        THEN \* compile_func raised at line 157
             /\ last' = Op("call", g, "CompileError", <<>>, FALSE)
             /\ UNCHANGED <<funcs, gens, strats, nstrat, groups, byName, iters>>
        ELSE \E r \in Invoke(funcs[gn.func], strats[c]) :
               /\ strats' = [strats EXCEPT ![c] = r.st]
               /\ StackOk(strats')
               /\ gens' = [gens EXCEPT ![g] = gn]
               /\ iters' = Disturb(iters, 0, {c}, {})
               /\ last' = Op("call", g, r.err, r.out, FALSE)
               /\ UNCHANGED <<funcs, nstrat, groups, byName>>

\* Generator.generate(*args): calling it only makes the iterator object
NewIter(g) ==
  /\ gens[g].exists
  /\ \E i \in FreeIter :
       iters' = Disturb([iters EXCEPT ![i] = [NoIter EXCEPT !.pc = "created", !.gen = g]],
                        0, {}, {})
  /\ last' = IterOp
  /\ UNCHANGED <<funcs, gens, strats, nstrat, groups, byName>>

\* The lifecycle calls of generate(), on cx = the strategies, the calls
\* issued so far and whether finish() was among them.
Note(cx, call, s) == [cx EXCEPT !.log = Append(@, Ev(call, s))]

\* mutants: a lifecycle call left out of generate()
CallInitSkipped(cx, s) == cx

CallInitRunSkipped(cx, s) == cx

CallFinishRunSkipped(cx, s) == cx

CallFinishSkipped(cx, s) == cx

\* line 177: self.strategy.init()
CallInit(cx, s) == Note([cx EXCEPT !.ss[s] = StratInit(@)], "init", s)

\* line 179: self.strategy.init_run()
CallInitRun(cx, s) == Note([cx EXCEPT !.ss[s] = StratInitRun(@)], "init_run", s)

\* line 181: self.strategy.finish_run()
CallFinishRun(cx, s) == Note([cx EXCEPT !.ss[s] = StratFinishRun(@)], "finish_run", s)

\* line 183: self.strategy.finish()
CallFinish(cx, s) == Note([cx EXCEPT !.ss[s] = StratFinish(@), !.stopped = TRUE], "finish", s)

\* lines 178-183, from the loop test to the next yield or to the end
Loop(cx, gn, it, fn) ==
  LET s == gn.strategy IN
    IF IsFinished(cx.ss[s])
    THEN LET c2 == CallFinish(Note(cx, "is_finished:T", s), s) IN
           {[ss |-> c2.ss,
             it |-> [it EXCEPT !.pc = "done", !.stopped = c2.stopped, !.log = c2.log],
             used |-> {s}]}
    ELSE LET c1 == CallInitRun(Note(cx, "is_finished:F", s), s)
             c  == gn.compiled
         IN IF c = NoRef
            THEN \* line 180 calls None
                 {[ss |-> c1.ss,
                   it |-> [it EXCEPT !.pc = "failed", !.stopped = c1.stopped, !.log = c1.log,
                                     !.pre = Len(c1.ss[s].stack), !.err = "TypeError"],
                   used |-> {s}]}
            ELSE {[ss |-> [c1.ss EXCEPT ![c] = r.st],
                   it |-> IF r.err = "ok"
                          THEN [it EXCEPT !.pc = "suspended", !.outs = Append(@, r.out),
                                          !.stopped = c1.stopped,
                                          !.log = Note(Note(c1, "invoke", c), "yield", c).log,
                                          !.pre = Len(c1.ss[c].stack)]
                          ELSE [it EXCEPT !.pc = "failed", !.stopped = c1.stopped,
                                          !.log = Note(c1, "invoke", c).log,
                                          !.pre = Len(c1.ss[c].stack), !.err = r.err],
                   used |-> {s, c}] :
                    r \in RunOutcomes(fn, c1.ss[c])}

\* next() on a generate() iterator: lines 174-177 on the first call, line 181
\* on a later one, then the loop up to the next yield
Advance(i) ==
  /\ iters[i].pc \in {"created", "suspended"}
  \* gn: the generator once lines 174-175 ran
  /\ \E gn \in {IF iters[i].pc = "created" THEN EnsureCompiled(gens[iters[i].gen])
                 ELSE gens[iters[i].gen]} :
     LET it    == iters[i]
         first == it.pc = "created"
         s     == gn.strategy
         cx0   == [ss |-> strats, log |-> it.log, stopped |-> it.stopped]
         cx1   == IF first THEN CallInit(cx0, s) ELSE CallFinishRun(cx0, s)
         it1   == IF first THEN [it EXCEPT !.strat = s] ELSE it
         steps == IF first /\ gn.compiled = NoRef
                  THEN \* compile_func raised at line 175
                       {[ss |-> strats, it |-> [it EXCEPT !.pc = "failed", !.err = "CompileError"],
                         used |-> {}]}
                  ELSE Loop(cx1, gn, it1, funcs[gn.func])
     IN \E r \in steps :
          /\ StackOk(r.ss)
          /\ strats' = r.ss
          /\ gens' = [gens EXCEPT ![it.gen] = gn]
          /\ iters' = Disturb([iters EXCEPT ![i] =
                                [r.it EXCEPT !.stray = @ \/ r.used \ {r.it.strat} # {}]],
                              i, r.used, {})
          /\ last' = IterOp
          /\ UNCHANGED <<funcs, nstrat, groups, byName>>

\* close() on a generate() iterator, or the consumer dropping it: GeneratorExit
\* is raised at the yield (line 180) and nothing of generate() handles it
Close(i) ==
  /\ iters[i].pc \in {"created", "suspended"}
  /\ iters' = Disturb([iters EXCEPT ![i].pc = "closed"], i, {}, {})
  /\ last' = IterOp
  /\ UNCHANGED <<funcs, gens, strats, nstrat, groups, byName>>

\* an iterator object that ended is garbage
Drop(i) ==
  /\ iters[i].pc \in {"done", "failed", "closed"}
  /\ \A h \in Iters : h > i => iters[h].pc = "none"
  /\ iters' = [iters EXCEPT ![i] = NoIter]
  /\ last' = IterOp
  /\ UNCHANGED <<funcs, gens, strats, nstrat, groups, byName>>

\* ---------------------------------------------------------- specifications
\* The facade: the program before any generator is defined, then any
\* construction, set_strategy, call and generate, one iterator at a time.
\* The generator function has no choice site and does not raise.
Init ==
  /\ funcs = <<Func(Ret, FALSE)>>
  /\ gens = [g \in Gens |-> NoGen]
  /\ strats = [s \in StratIds |-> NoStrat]
  /\ nstrat = 0
  /\ groups = [n \in GroupNames |-> <<>>]
  /\ byName = [n \in Names |-> NoRef]
  /\ iters = [i \in Iters |-> NoIter]
  /\ last = NoOp

Next ==
  \/ \E f \in DOMAIN funcs, opt \in StratOpts, name \in Names \cup {NoStr},
        group \in GroupNames \cup {NoStr} : Construct(f, opt, name, group)
  \/ \E g \in Gens, opt \in StratOpts, as_group \in BOOLEAN : SetStrategy(g, opt, as_group)
  \/ \E g \in Gens : Call(g)
  \/ \E g \in Gens : iters[1].pc = "none" /\ NewIter(g)
  \/ \E i \in Iters : Advance(i)
  \/ \E i \in Iters : Close(i)
  \/ \E i \in Iters : Drop(i)

Spec == Init /\ [][Next]_vars

\* The enumeration: one generator defined with the default strategy,
\* `@generator def f`, for every function of the bounded family and the
\* docstring's g(2); a single consumer makes direct calls and runs one
\* generate() iterator at a time.
InitEnum ==
  /\ funcs \in {<<Func(t, r)>> : t \in Trees(MaxNodes) \cup {BinTree(2)}, r \in BOOLEAN}
  /\ gens = [g \in Gens |-> IF g = 1 THEN [NoGen EXCEPT !.exists = TRUE, !.func = 1, !.strategy = 1]
                            ELSE NoGen]
  /\ strats = [s \in StratIds |-> IF s = 1 THEN NewDfs ELSE NoStrat]
  /\ nstrat = 1
  /\ groups = [n \in GroupNames |-> <<>>]
  /\ byName = [n \in Names |-> NoRef]
  /\ iters = [i \in Iters |-> NoIter]
  /\ last = NoOp

NextEnum ==
  \/ \E g \in Gens : Call(g)
  \/ \E g \in Gens : iters[1].pc = "none" /\ NewIter(g)
  \/ \E i \in Iters : Advance(i)
  \/ \E i \in Iters : Close(i)
  \/ \E i \in Iters : Drop(i)

SpecEnum == InitEnum /\ [][NextEnum]_vars

\* the hidden state a function's domains depend on changes between two runs
Mutate(f) ==
  /\ funcs[f].alt # funcs[f].tree
  /\ funcs' = [funcs EXCEPT ![f].tree = funcs[f].alt, ![f].alt = funcs[f].tree]
  /\ last' = Op("env", 0, "ok", <<>>, FALSE)
  /\ UNCHANGED <<gens, strats, nstrat, groups, byName, iters>>

\* The call sites: one generator defined with the default strategy, for
\* every function given by at most MaxSites call expressions and for the
\* ill-formed ones; a single consumer makes direct calls and runs one
\* generate() iterator at a time.
InitSites ==
  /\ funcs \in {<<fn>> : fn \in {FuncOf(b) : b \in Bodies(MaxSites)} \cup IllFormed}
  /\ gens = [g \in Gens |-> IF g = 1 THEN [NoGen EXCEPT !.exists = TRUE, !.func = 1, !.strategy = 1]
                            ELSE NoGen]
  /\ strats = [s \in StratIds |-> IF s = 1 THEN NewDfs ELSE NoStrat]
  /\ nstrat = 1
  /\ groups = [n \in GroupNames |-> <<>>]
  /\ byName = [n \in Names |-> NoRef]
  /\ iters = [i \in Iters |-> NoIter]
  /\ last = NoOp

NextSites ==
  \/ \E g \in Gens : Call(g)
  \/ \E g \in Gens : iters[1].pc = "none" /\ NewIter(g)
  \/ \E i \in Iters : Advance(i)
  \/ \E i \in Iters : Close(i)
  \/ \E i \in Iters : Drop(i)
  \/ \E f \in DOMAIN funcs : Mutate(f)

SpecSites == InitSites /\ [][NextSites]_vars

\* The pair: two generators of one function, defined in one group with the
\* default strategy, which they share (lines 115-124); the function makes
\* zero, one or two sequential selections; consumers make direct calls and
\* hold generate() iterators side by side.
InitPair ==
  /\ funcs \in {<<FuncOf(b)>> : b \in {<<>>, <<SelectSite>>, <<SelectSite, SelectSite>>}}
  /\ gens = [g \in Gens |-> IF g <= 2
                            THEN [NoGen EXCEPT !.exists = TRUE, !.func = 1, !.strategy = 1,
                                               !.group = "grp"]
                            ELSE NoGen]
  /\ strats = [s \in StratIds |-> IF s = 1 THEN NewDfs ELSE NoStrat]
  /\ nstrat = 1
  /\ groups = [n \in GroupNames |-> <<1, 2>>]
  /\ byName = [n \in Names |-> NoRef]
  /\ iters = [i \in Iters |-> NoIter]
  /\ last = NoOp

NextPair ==
  \/ \E g \in Gens : Call(g)
  \/ \E g \in Gens : NewIter(g)
  \/ \E i \in Iters : Advance(i)
  \/ \E i \in Iters : Close(i)
  \/ \E i \in Iters : Drop(i)

SpecPair == InitPair /\ [][NextPair]_vars

\* ------------------------------------------------------------------ claims
TreeOf(i) == funcs[gens[iters[i].gen].func].tree

OnDfs(i) == iters[i].strat # NoRef /\ strats[iters[i].strat].kind = "dfs"

\* an iteration that nothing else interfered with, on the depth-first strategy
Exclusive(i) == iters[i].clean /\ OnDfs(i)

Occurrences(seq, x) == Cardinality({k \in 1..Len(seq) : seq[k] = x})

\* the domain offered at some site depends on an earlier choice
Dependent(t) ==
  t.kind = "sel" /\ \E j, k \in 1..Len(t.ch) : Len(t.ch[j].ch) # Len(t.ch[k].ch)

\* C1: under the depth-first strategy a generate() iteration drained to
\* completion yields exactly one output per leaf of the decision tree: every
\* root-to-leaf sequence of choice indices is executed exactly once, none is
\* omitted, none repeated, and nothing else is yielded.
C1_OneOutputPerLeaf ==
  \A i \in Iters :
    (iters[i].pc = "done" /\ Exclusive(i)) =>
      /\ \A p \in Range(Leaves(TreeOf(i))) : Occurrences(iters[i].outs, p) = 1
      /\ Range(iters[i].outs) \subseteq Range(Leaves(TreeOf(i)))

C1_Witness ==
  \E i \in Iters :
    /\ iters[i].pc = "done" /\ Exclusive(i)
    /\ Dependent(TreeOf(i))
    /\ Len(iters[i].outs) >= 3

RECURSIVE LexLess(_, _)
LexLess(p, q) ==
  IF q = <<>> THEN FALSE
  ELSE IF p = <<>> THEN TRUE
  ELSE IF Head(p) # Head(q) THEN Head(p) < Head(q)
  ELSE LexLess(Tail(p), Tail(q))

\* C2: under the depth-first strategy the outputs appear in preorder
\* depth-first (odometer) order: at every moment the outputs yielded so far
\* are the first leaves of the tree in preorder, consecutive runs are
\* strictly increasing in lexicographic order, and the docstring's g(2)
\* yields 00, 01, 10, 11.
C2_PreorderOdometer ==
  \A i \in Iters :
    Exclusive(i) =>
      /\ Len(iters[i].outs) <= Len(Leaves(TreeOf(i)))
      /\ \A k \in 1..Len(iters[i].outs) : iters[i].outs[k] = Leaves(TreeOf(i))[k]
      /\ \A k \in 1..(Len(iters[i].outs) - 1) : LexLess(iters[i].outs[k], iters[i].outs[k + 1])
      /\ (iters[i].pc = "done" /\ TreeOf(i) = BinTree(2)) =>
           iters[i].outs = << <<0, 0>>, <<0, 1>>, <<1, 0>>, <<1, 1>> >>

C2_Witness ==
  \E i \in Iters :
    /\ Exclusive(i) /\ iters[i].pc = "done"
    /\ TreeOf(i) = BinTree(2)
    /\ Len(iters[i].outs) = 4

RECURSIVE RunCalls(_, _)
\* the lifecycle calls of k runs that yielded, on strategy s
RunCalls(s, k) ==
  IF k = 0 THEN <<>>
  ELSE RunCalls(s, k - 1) \o
       <<Ev("is_finished:F", s), Ev("init_run", s), Ev("invoke", s), Ev("yield", s),
         Ev("finish_run", s)>>

\* C3: a generate() iteration drained to completion without a failing run
\* issued exactly init() once first, then per output is_finished() -> false,
\* init_run(), the callable, the yield, finish_run(), and finish() once after
\* is_finished() first returned true, nothing being yielded afterwards; an
\* iteration suspended at its k-th yield issued that sequence up to the yield.
C3_LifecycleOrder ==
  \A i \in Iters :
    LET it == iters[i]
        full == <<Ev("init", it.strat)>> \o RunCalls(it.strat, Len(it.outs))
    IN (it.clean /\ it.pc = "done" =>
          it.log = full \o <<Ev("is_finished:T", it.strat), Ev("finish", it.strat)>>)
       /\ (it.clean /\ it.pc = "suspended" => it.log = SubSeq(full, 1, Len(full) - 1))

C3_Witness ==
  \E i \in Iters :
    /\ iters[i].clean /\ iters[i].pc = "done"
    /\ Len(iters[i].outs) >= 2
    /\ iters[i].stopped

\* C4: finish() is executed on every exit path of a generate() iteration
\* whose episode was started: after full drain, after the consumer closed the
\* iterator early, and after a run raised.
C4_FinishOnEveryExit ==
  \A i \in Iters :
    (iters[i].pc \in {"done", "closed", "failed"} /\ iters[i].strat # NoRef) => iters[i].stopped

\* C5: right after a run of generate() raised under the depth-first
\* strategy, the trace stack is as deep as it was when that run started.
C5_FailedRunRolledBack ==
  \A i \in Iters :
    (iters[i].pc = "failed" /\ OnDfs(i) /\ last = IterOp) =>
      Len(strats[iters[i].strat].stack) = iters[i].pre

\* C9: with a deterministic function and the depth-first strategy, call()
\* returns the output of the run in which every choice site selects
\* candidate 0, in every reachable state.
C9_CallReturnsFirst ==
  (/\ last.op = "call"
   /\ ~funcs[gens[last.g].func].raises
   /\ strats[gens[last.g].compiled].kind = "dfs") =>
    (last.err = "ok" /\ last.out = FirstPath(funcs[gens[last.g].func].tree))

\* The consumer keeps draining: as SpecEnum for the functions that do not
\* raise, the iterator never being closed early, and next() being called
\* again for as long as the iterator has not ended.
InitDrain == InitEnum /\ ~funcs[1].raises

NextDrain ==
  \/ \E g \in Gens : Call(g)
  \/ \E g \in Gens : iters[1].pc = "none" /\ NewIter(g)
  \/ \E i \in Iters : Advance(i)
  \/ \E i \in Iters : Drop(i)

SpecDrain == InitDrain /\ [][NextDrain]_vars /\ \A i \in Iters : WF_vars(Advance(i))

\* C10: for a finite-domain deterministic function under the depth-first
\* strategy, a generate() iteration that the consumer keeps draining
\* terminates: is_finished() becomes true, the loop exits, finish() is called.
C10_DrainTerminates ==
  \A i \in Iters :
    (iters[i].pc = "created") ~> ((iters[i].pc = "done" /\ iters[i].stopped) \/ ~iters[i].clean)

C10_Witness ==
  \E i \in Iters :
    /\ iters[i].pc = "done" /\ iters[i].stopped /\ Exclusive(i)
    /\ Len(iters[i].outs) >= 4

\* C6: whenever the memoized callable of a generator is set, it was compiled
\* against the generator's current strategy instance, so no call() and no
\* run of generate() invokes a callable of a replaced strategy.
C6_CallableOfCurrentStrategy ==
  \A g \in Gens : gens[g].compiled # NoRef => gens[g].compiled = gens[g].strategy

C6_Witness ==
  /\ last.op = "call" /\ last.g = 1 /\ last.err = "ok"
  /\ gens[1].strategy = 2 /\ gens[1].compiled = 2

Members(g) == IF gens[g].group = NoStr THEN {g} ELSE {g} \cup Range(groups[gens[g].group])

\* C7: right after A.set_strategy(S) with group propagation, every member of
\* A's group references the very instance A references, and has its
\* memoized callable invalidated.
C7_GroupPropagation ==
  (last.op = "set_strategy" /\ last.err = "ok" /\ last.flag) =>
    \A m \in Members(last.g) :
      gens[m].strategy = gens[last.g].strategy /\ gens[m].compiled = NoRef

C7_Witness ==
  /\ last.op = "set_strategy" /\ last.err = "ok" /\ last.flag
  /\ Cardinality(Members(last.g)) = 2
  /\ gens[last.g].strategy = 2

GroupShares ==
  \A g, h \in Gens :
    (gens[g].exists /\ gens[h].exists /\ gens[g].group # NoStr /\ gens[g].group = gens[h].group)
      => gens[g].strategy = gens[h].strategy

\* C8 as stated: in every reachable state all generators registered in the
\* same group reference one and the same strategy instance.
C8_GroupSharesAlways == GroupShares

\* C8 as amended: every construction and every set_strategy with group
\* propagation keeps the generators of a group on one strategy instance;
\* only set_strategy with as_group=False on a group member ends the sharing.
C8_SharingPreserved ==
  [][(GroupShares /\ ~(/\ last'.op = "set_strategy" /\ last'.err = "ok" /\ ~last'.flag
                      /\ gens[last'.g].group # NoStr))
       => GroupShares']_vars

C8_Witness ==
  /\ last.op = "construct" /\ last.err = "ok" /\ last.g = 2
  /\ gens[2].group # NoStr /\ gens[1].group = gens[2].group
  /\ gens[1].strategy = gens[2].strategy
  /\ nstrat = 2

FirstRunCalls(s) ==
  <<Ev("init", s), Ev("is_finished:F", s), Ev("init_run", s), Ev("invoke", s), Ev("yield", s)>>

\* C11: for a function with no choice sites, generate() yields exactly one
\* output, the one a direct call() returns: is_finished() is false right
\* after init() although the trace stack is empty, and true after the first
\* finish_run().
C11_ZeroChoiceSingleOutput ==
  /\ \A i \in Iters :
       LET it == iters[i] IN
         (it.clean /\ it.strat # NoRef /\ TreeOf(i) = Ret /\ ~funcs[gens[it.gen].func].raises) =>
           /\ it.pc # "failed"
           /\ it.outs = << <<>> >>
           /\ it.pc = "suspended" => it.log = FirstRunCalls(it.strat)
           /\ it.pc = "done" =>
                it.log = FirstRunCalls(it.strat) \o
                         <<Ev("finish_run", it.strat), Ev("is_finished:T", it.strat),
                           Ev("finish", it.strat)>>
           /\ (last.op = "call" /\ last.g = it.gen) => (last.err = "ok" /\ last.out = it.outs[1])
  /\ (/\ last.op = "call" /\ last.err # "CompileError"
      /\ funcs[gens[last.g].func].tree = Ret /\ ~funcs[gens[last.g].func].raises) =>
       (last.err = "ok" /\ last.out = <<>>)

C11_Witness ==
  \E i \in Iters :
    /\ iters[i].pc = "done" /\ Exclusive(i) /\ TreeOf(i) = Ret
    /\ Len(strats[iters[i].strat].stack) = 0
    /\ last.op = "call" /\ last.g = iters[i].gen /\ last.out = iters[i].outs[1]

\* C12: call() brackets no episode: the step of a call() leaves `finished`
\* as it was, clears no frame and does not reset the cursor (no init, init_run,
\* finish_run, finish), touches no other strategy and no iteration's record,
\* runs the callable once (the cursor advances by the choice sites of one
\* root-to-leaf path) and returns the output of that one run.
C12_CallBracketsNoEpisode ==
  [][(last'.op = "call" /\ last'.err # "CompileError") =>
       LET c  == gens'[last'.g].compiled
           fn == funcs[gens'[last'.g].func]
       IN /\ strats'[c].finished = strats[c].finished
          /\ Len(strats'[c].stack) >= Len(strats[c].stack)
          /\ SubSeq(strats'[c].stack, 1, Len(strats[c].stack)) = strats[c].stack
          /\ strats'[c].cursor = strats[c].cursor + Len(last'.out)
          /\ \A s \in StratIds \ {c} : strats'[s] = strats[s]
          /\ last'.err = "ok" => last'.out \in Range(Leaves(fn.tree))
          /\ \A i \in Iters : /\ iters'[i].log \in {iters[i].log, <<>>}
                              /\ iters'[i].stopped = iters[i].stopped
                              /\ iters'[i].pc = iters[i].pc]_vars

C12_Witness ==
  /\ last.op = "call" /\ last.err = "ok" /\ Len(last.out) >= 2
  /\ strats[gens[last.g].compiled].cursor > Len(last.out)
  /\ ~strats[gens[last.g].compiled].finished
  /\ \E i \in Iters : iters[i].pc = "suspended" /\ iters[i].gen = last.g

Bogus == [tag |-> "name", name |-> "bogus", id |-> NoRef]

\* C14: a strategy given as a name other than 'dfs' or 'randomized' fails,
\* and the failed construction or set_strategy changes nothing: strategies,
\* memoized callables, group members and both registries are as before.
C14_UnknownNameChangesNothing ==
  [][/\ ~make_strategy(strats, nstrat, Bogus).ok
     /\ make_strategy(strats, nstrat, Bogus).ss = strats
     /\ (last'.err = "Exception" /\ last'.op \in {"construct", "set_strategy"}) =>
          UNCHANGED <<funcs, gens, strats, nstrat, groups, byName, iters>>]_vars

C14_Witness ==
  /\ last.op = "set_strategy" /\ last.err = "Exception" /\ last.flag
  /\ Cardinality(Members(last.g)) = 2
  /\ gens[last.g].compiled # NoRef
  /\ byName["nm"] # NoRef

\* C17: every is_finished(), init_run(), finish_run() and finish() call of a
\* generate() iteration goes to the strategy it called init() on, and every
\* run invokes a callable of that strategy, whatever set_strategy or call()
\* did while it was suspended.
C17_IterationKeepsItsStrategy == \A i \in Iters : ~iters[i].stray

FrameOk(fr) == 0 <= fr.idx /\ fr.idx < fr.size /\ (fr.exhausted <=> (fr.idx = fr.size - 1))

\* C18: at every run boundary each trace frame has 0 <= idx < size and is
\* exhausted exactly when idx = size - 1; in a run that resolves a choice
\* site the cursor is at most the stack depth when the run starts and when
\* it ends, and the run changes the stack only by appending frames.
C18_FrameAndCursorInvariants ==
  [][/\ \A s \in StratIds : \A k \in 1..Len(strats'[s].stack) : FrameOk(strats'[s].stack[k])
     /\ (last'.op = "call" /\ last'.err # "CompileError") =>
          LET c == gens'[last'.g].compiled IN
            /\ SubSeq(strats'[c].stack, 1, Len(strats[c].stack)) = strats[c].stack
            /\ strats'[c].cursor > strats[c].cursor =>
                 /\ strats[c].cursor <= Len(strats[c].stack)
                 /\ strats'[c].cursor <= Len(strats'[c].stack)
     /\ \A i \in Iters :
          (iters'[i] # iters[i] /\ iters'[i].pc \in {"suspended", "failed"}
             /\ iters'[i].strat # NoRef /\ last' = IterOp) =>
            /\ strats'[iters'[i].strat].cursor <= Len(strats'[iters'[i].strat].stack)
            /\ iters'[i].pre <= Len(strats'[iters'[i].strat].stack)]_vars

\* C13: the bound callable is memoized: with no strategy replacement in
\* between, the function of a generator is compiled at most once, and exactly
\* once as soon as a call() was made or a generate() iterator was advanced,
\* however many iterators were created before.
C13_CompiledOnce ==
  /\ \A g \in Gens : gens[g].ncomp <= 1 /\ (gens[g].compiled # NoRef <=> gens[g].ncomp = 1)
  /\ (last.op = "call" /\ last.err # "CompileError") => gens[last.g].ncomp = 1
  /\ \A i \in Iters : iters[i].strat # NoRef => gens[iters[i].gen].ncomp = 1

C13_Witness ==
  /\ last.op = "call" /\ last.err = "ok"
  /\ \E i, j \in Iters :
       /\ i # j /\ iters[i].gen = last.g /\ iters[j].gen = last.g
       /\ iters[i].pc = "suspended" /\ iters[j].pc = "suspended"
  /\ gens[last.g].ncomp = 1

\* C16: no two generate() iterations are active at the same time on one
\* strategy instance: never are two iterators, of one generator or of two
\* group siblings, both suspended in an episode started on the same strategy.
C16_NoConcurrentIterations ==
  \A i, j \in Iters :
    (i # j /\ iters[i].pc = "suspended" /\ iters[j].pc = "suspended") =>
      iters[i].strat # iters[j].strat

\* a recognized choice site whose site identifier is not a literal string
BadOid(fn) ==
  \E k \in 1..Len(fn.body) :
    fn.body[k].callee = Callee(TRUE, "Select", 0) /\ fn.body[k].oid = "expr"

\* C15: the compile-time error of a non-literal site identifier is raised
\* during binding: call() and the first next() of generate() fail with it
\* before the body runs and before any lifecycle call reaches the strategy
\* (no init, no frame, no output), the memoized callable stays unset, so every
\* later use compiles and fails again; no other function fails this way.
C15_CompileErrorIsEager ==
  /\ \A g \in Gens :
       (gens[g].exists /\ BadOid(funcs[gens[g].func])) =>
         /\ gens[g].compiled = NoRef /\ gens[g].ncomp = 0
         /\ strats[gens[g].strategy] = NewDfs
         /\ (last.op = "call" /\ last.g = g) => (last.err = "CompileError" /\ last.out = <<>>)
         /\ \A i \in Iters :
              iters[i].gen = g =>
                /\ iters[i].pc \in {"created", "failed", "closed"}
                /\ iters[i].strat = NoRef /\ iters[i].log = <<>> /\ iters[i].outs = <<>>
                /\ iters[i].pc = "failed" => iters[i].err = "CompileError"
  /\ \A g \in Gens :
       (gens[g].exists /\ ~BadOid(funcs[gens[g].func])) =>
         /\ (last.op = "call" /\ last.g = g) => last.err # "CompileError"
         /\ \A i \in Iters : iters[i].gen = g => iters[i].err # "CompileError"

C15_Witness ==
  /\ BadOid(funcs[gens[1].func])
  /\ last.op = "call" /\ last.g = 1 /\ last.err = "CompileError"
  /\ \E i \in Iters : iters[i].gen = 1 /\ iters[i].pc = "failed" /\ iters[i].err = "CompileError"
  /\ gens[1].compiled = NoRef

RECURSIVE NodeAt(_, _)
\* the node a path of selected indices leads to
NodeAt(t, path) ==
  IF path = <<>> THEN t
  ELSE IF Head(path) + 1 > Len(t.ch) THEN [kind |-> "none", ch |-> <<>>]
  ELSE NodeAt(t.ch[Head(path) + 1], Tail(path))

\* the indices selected in the first n frames
Selected(st, n) == [k \in 1..n |-> st.stack[k].idx]

\* C19: a run of generate() that meets a replayed site whose domain size
\* differs from the recorded one fails with NonDeterministicDomainError, one
\* that meets an empty domain fails with EmptyDomainError, and neither yields
\* an output: a run that yielded found at every site a non-empty domain of
\* the recorded size, a failed run stopped at an empty domain or at a
\* mismatch according to its error, and a call() at such a first site fails
\* the same way.
C19_DomainErrors ==
  [][/\ \A i \in Iters :
          LET it == iters'[i]
              st == strats'[it.strat]
              t  == funcs'[gens'[it.gen].func].tree
          IN /\ (it.pc = "suspended" /\ it.clean /\ Len(it.outs) = Len(iters[i].outs) + 1) =>
                  LET out == it.outs[Len(it.outs)] IN
                    /\ NodeAt(t, out).kind = "ret"
                    /\ \A k \in 1..Len(out) :
                         /\ Len(NodeAt(t, SubSeq(out, 1, k - 1)).ch) = st.stack[k].size
                         /\ st.stack[k].size > 0
                         /\ st.stack[k].idx = out[k]
             /\ (it.pc = "failed" /\ iters[i].pc # "failed" /\ it.err # "CompileError") =>
                  LET node == NodeAt(t, Selected(st, st.cursor)) IN
                    /\ it.err \in {"EmptyDomainError", "NonDeterministicDomainError"}
                    /\ Len(it.outs) <= Len(iters[i].outs)
                    /\ node.kind = "sel"
                    /\ it.err = "EmptyDomainError" => Len(node.ch) = 0
                    /\ it.err = "NonDeterministicDomainError" =>
                         /\ st.cursor < Len(st.stack)
                         /\ Len(node.ch) # st.stack[st.cursor + 1].size
     /\ (last'.op = "call" /\ last'.err # "CompileError") =>
          LET c  == gens'[last'.g].compiled
              st == strats[c]
              t  == funcs'[gens'[last'.g].func].tree
          IN /\ (t.kind = "sel" /\ Len(t.ch) = 0) =>
                  (last'.err = "EmptyDomainError" /\ last'.out = <<>>)
             /\ (t.kind = "sel" /\ Len(t.ch) > 0 /\ st.cursor < Len(st.stack)
                   /\ st.stack[st.cursor + 1].size # Len(t.ch)) =>
                  (last'.err = "NonDeterministicDomainError" /\ last'.out = <<>>)
             /\ last'.err \in {"ok", "EmptyDomainError", "NonDeterministicDomainError"}]_vars

C19_Witness ==
  \E i \in Iters :
    /\ iters[i].pc = "failed" /\ iters[i].err = "NonDeterministicDomainError"
    /\ iters[i].clean /\ Len(iters[i].outs) >= 1
    /\ funcs[gens[iters[i].gen].func].alt # TreeOf(i)

\* C20: compile_func rebinds a call expression exactly when its callee is a
\* plain name among the strategy's known operators: process_op is asked once
\* for each such site, the site then calls the binding name it returned,
\* which is bound to the resolver it returned, with the arguments as they
\* were; every other call expression is left as written.
C20_RebindsKnownPlainNames ==
  \A g \in Gens :
    (gens[g].exists /\ gens[g].compiled # NoRef) =>
      LET fn == funcs[gens[g].func]
          r  == compile_func(fn, gens[g].compiled)
      IN /\ r.err = "ok"
         /\ Len(r.body) = Len(fn.body)
         /\ \A k \in 1..Len(fn.body) :
              LET site == fn.body[k]
                  asks == {j \in 1..Len(r.asked) : r.asked[j].site = k}
              IN IF site.callee.plain /\ site.callee.id \in KnownOps(strats[gens[g].compiled])
                 THEN /\ Cardinality(asks) = 1
                      /\ r.body[k].callee # site.callee
                      /\ r.body[k].oid = site.oid
                      /\ \A j \in asks :
                           /\ r.body[k].callee = r.asked[j].name
                           /\ {e.op : e \in {x \in r.ops : x.name = r.body[k].callee}}
                                = {r.asked[j].op}
                           /\ r.asked[j].op.kind = site.callee.id
                 ELSE asks = {} /\ r.body[k] = site

C20_Witness ==
  /\ gens[1].compiled # NoRef /\ last.op = "call" /\ last.err = "ok"
  /\ Len(funcs[1].body) = 2
  /\ funcs[1].body[1] = Site(FALSE, "Select", "none")
  /\ funcs[1].body[2] = Site(TRUE, "Select", "a")
  /\ Len(last.out) = 1

====
